---- MODULE Spec2Model ----
(***************************************************************************)
(* Model of monitor_and_notify.py: one run of main() per external trigger. *)
(*                                                                         *)
(* Strings are sequences of one-character tokens.  The glyphs the program  *)
(* looks for are written as ASCII tokens:                                  *)
(*   "MARU"    U+25CB white circle          "MARU0"  U+3007 ideographic 0  *)
(*   "SANKAKU" U+25B3 white triangle        "ZAN"    U+6B8B 'remaining'    *)
(*   "BATSU"   U+00D7 multiplication sign   "NL"     the newline character *)
(* and the category literal of the XPath (six characters) as the tokens    *)
(* "K1".."K6".                                                             *)
(***************************************************************************)
EXTENDS Integers, Sequences, FiniteSets

VARIABLES
  pc,              \* position of main(): idle, main, read_last, detect, decide, notify, write_last, done
  CHANNEL_TOKEN,   \* module constants loaded from the environment at process start
  SEND_MODE,
  TO_USER_ID,
  TO_GROUP_ID,
  USER_IDS_CSV,
  cacheFile,       \* content of last_status.txt, or NoFile
  last,            \* locals of main()
  status,
  prev,
  curr,
  should_notify,
  exitCode,        \* process exit status of the run, NoExit while it runs
  failAt,          \* the step of this run's detection at which an exception was raised
  trace,           \* the external operations of this run, in order
  httpStatus,      \* status of the messaging response of this run (NoCall when none)
  prevRun,         \* history: what the previous run observed, sent and how it ended
  cacheAtStart,    \* history: cacheFile when this run started
  lastWriterObs,   \* history: the state observed by the most recent run that wrote the cache
  sinceDelivery,   \* history: "none" no delivery yet, "no"/"yes" a run observed Full since the last delivery
  deliveryGap,     \* history: sinceDelivery at the moment of the latest successful delivery
  page,            \* detector alone: the tables of the page
  TARGET_CATEGORY, \* detector alone: configured category label
  TARGET_DATE_LABEL, \* detector alone: configured date label
  detected,        \* detector alone: outcome of detect_status_with_selenium, NotDetected before
  cell,            \* cell alone: the element whose text is read
  cellResult       \* cell alone: classification of the cell, NotRun before

vars == <<pc, CHANNEL_TOKEN, SEND_MODE, TO_USER_ID, TO_GROUP_ID, USER_IDS_CSV, cacheFile,
          last, status, prev, curr, should_notify, exitCode, failAt, trace, httpStatus,
          prevRun, cacheAtStart, lastWriterObs, sinceDelivery, deliveryGap,
          page, TARGET_CATEGORY, TARGET_DATE_LABEL, detected, cell, cellResult>>

mainVars == <<pc, CHANNEL_TOKEN, SEND_MODE, TO_USER_ID, TO_GROUP_ID, USER_IDS_CSV, cacheFile,
              last, status, prev, curr, should_notify, exitCode, failAt, trace, httpStatus,
              prevRun, cacheAtStart, lastWriterObs, sinceDelivery, deliveryGap>>

detectVars == <<page, TARGET_CATEGORY, TARGET_DATE_LABEL, detected>>

cellVars == <<cell, cellResult>>

(***************************************************************************)
(* Bounds of the model.                                                    *)
(***************************************************************************)
MaxLen == 3
MaxRows == 2

(***************************************************************************)
(* Strings.                                                                *)
(***************************************************************************)
None == <<"<None>">>
NoFile == <<"<NoFile>">>
NotRun == <<"<NotRun>">>

MARU == <<"MARU">>
SANKAKU == <<"SANKAKU">>
BATSU == <<"BATSU">>
UNKNOWN == <<"U", "N", "K", "N", "O", "W", "N">>

Whitespace == {" ", "NL"}
Digits == {"0", "1", "2", "3", "4", "5", "6", "7", "8", "9"}

RECURSIVE LStrip(_)
LStrip(s) == IF s # <<>> /\ Head(s) \in Whitespace THEN LStrip(Tail(s)) ELSE s

RECURSIVE RStrip(_)
RStrip(s) ==
  IF s # <<>> /\ s[Len(s)] \in Whitespace THEN RStrip(SubSeq(s, 1, Len(s) - 1)) ELSE s

\* str.strip()
Strip(s) == RStrip(LStrip(s))

\* str.replace("\n", " ")
ReplaceNL(s) == [i \in 1..Len(s) |-> IF s[i] = "NL" THEN " " ELSE s[i]]

LowerChar(c) ==
  CASE c = "U" -> "u" [] c = "N" -> "n" [] c = "K" -> "k" [] c = "O" -> "o"
    [] c = "W" -> "w" [] c = "X" -> "x" [] OTHER -> c

\* str.lower()
Lower(s) == [i \in 1..Len(s) |-> LowerChar(s[i])]

\* sub in s
Contains(s, sub) ==
  \E i \in 1..(Len(s) - Len(sub) + 1) : SubSeq(s, i, i + Len(sub) - 1) = sub

\* XPath normalize-space(): strip, and collapse each run of whitespace to one space
RECURSIVE Collapse(_)
Collapse(s) ==
  IF s = <<>> THEN <<>>
  ELSE IF Head(s) \in Whitespace
       THEN IF Len(s) > 1 /\ s[2] \in Whitespace THEN Collapse(Tail(s))
            ELSE <<" ">> \o Collapse(Tail(s))
       ELSE <<Head(s)>> \o Collapse(Tail(s))

NormalizeSpace(s) == Collapse(Strip(s))

\* str.split(",")
RECURSIVE Split(_)
Split(s) ==
  IF \E i \in 1..Len(s) : s[i] = ","
  THEN LET i == CHOOSE k \in 1..Len(s) : s[k] = "," /\ \A j \in 1..(k - 1) : s[j] # ","
       IN <<SubSeq(s, 1, i - 1)>> \o Split(SubSeq(s, i + 1, Len(s)))
  ELSE <<s>>

\* the truth value Python gives a str or None
Truthy(v) == v # None /\ v # <<>>

\* a or b
Or(a, b) == IF Truthy(a) THEN a ELSE b

(***************************************************************************)
(* Environment.                                                            *)
(***************************************************************************)
\* env(name, default) applied to the raw value of the variable (None when unset)
env(raw, default) == IF raw = None \/ Strip(raw) = <<>> THEN default ELSE raw

push == <<"p", "u", "s", "h">>
broadcast == <<"b", "r", "o", "a", "d", "c", "a", "s", "t">>
multicast == <<"m", "u", "l", "t", "i", "c", "a", "s", "t">>

(***************************************************************************)
(* Detector.  An element is the three texts Selenium can give for it; a    *)
(* get_attribute() that returns None is coerced to "" by the code's        *)
(* `or ""` and is modelled as the empty text.  A table is its thead header *)
(* cells and its body rows; a row is the string values of its <th> cells   *)
(* and its <td> elements.                                                  *)
(***************************************************************************)
\* the step of a detection at which the browser or the file system raises, if it is reached
FailSteps == {"none", "makedirs", "driver", "get", "table", "row", "text", "screenshot", "quit"}

\* x.strip().replace("\n", " ")
Clean(s) == ReplaceNL(Strip(s))

\* text -> innerText -> textContent fallback
ElemText(el) ==
  LET t == Clean(el.text)
      i == Clean(el.innerText)
      c == Clean(el.textContent)
  IN IF t # <<>> THEN t ELSE IF i # <<>> THEN i ELSE c

header_texts_from_table(table) ==
  [i \in 1..Len(table.header) |-> ElemText(table.header[i])]

\* re.search(r"\d{1,2}/\d{1,2}", x)
DateLike(x) ==
  \E i \in 1..(Len(x) - 2) : x[i] \in Digits /\ x[i + 1] = "/" /\ x[i + 2] \in Digits

Score(table) ==
  LET texts == header_texts_from_table(table)
  IN Cardinality({i \in 1..Len(texts) : DateLike(texts[i])})

\* the loop of choose_calendar_table from table idx on; chosen = 0 is None
RECURSIVE ChooseFrom(_, _, _, _)
ChooseFrom(tables, idx, chosen, best_score) ==
  IF idx > Len(tables) THEN chosen
  ELSE IF Score(tables[idx]) > best_score
       THEN ChooseFrom(tables, idx + 1, idx, Score(tables[idx]))
       ELSE ChooseFrom(tables, idx + 1, chosen, best_score)

choose_calendar_table(tables) == ChooseFrom(tables, 1, 0, -1)

\* the category literal of the XPath at line 244
CampLiteral == <<"K1", "K2", "K3", "K4", "K5", "K6">>

\* the <tr> elements of a table in document order: the thead row, then the body rows
Trs(table) ==
  <<[ths |-> [i \in 1..Len(table.header) |-> table.header[i].textContent], tds |-> <<>>]>>
    \o table.rows

\* tr[th[contains(normalize-space(.), L)] or normalize-space(th[1]) = L]
RowMatches(row, literal) ==
  \/ \E k \in 1..Len(row.ths) : Contains(NormalizeSpace(row.ths[k]), literal)
  \/ (Len(row.ths) >= 1 /\ NormalizeSpace(row.ths[1]) = literal)

\* find_element: the first matching <tr>, 0 when none (NoSuchElementException)
CampRow(table) ==
  LET trs == Trs(table)
      hits == {r \in 1..Len(trs) : RowMatches(trs[r], CampLiteral)}
  IN IF hits = {} THEN 0 ELSE CHOOSE r \in hits : \A q \in hits : r <= q

\* lines 270-276
ClassifyMutOrder(txt) ==
  IF \E i \in 1..Len(txt) : txt[i] = "BATSU" THEN BATSU
  ELSE IF \E i \in 1..Len(txt) : txt[i] \in {"MARU0", "MARU"} THEN MARU
  ELSE IF \E i \in 1..Len(txt) : txt[i] \in {"SANKAKU", "ZAN"} THEN SANKAKU
  ELSE UNKNOWN

Classify(txt) ==
  IF Contains(txt, <<"MARU0">>) \/ Contains(txt, <<"MARU">>) THEN MARU
  ELSE IF Contains(txt, <<"SANKAKU">>) \/ Contains(txt, <<"ZAN">>) THEN SANKAKU
  ELSE IF Contains(txt, <<"BATSU">>) THEN BATSU
  ELSE UNKNOWN

\* lines 198-280, the try block: the state returned and the <tr> that was read
DetectBody(tables, date_label, fail) ==
  IF fail \in {"get", "table"} THEN [status |-> UNKNOWN, row |-> 0]
  ELSE
  LET t == choose_calendar_table(tables)
  IN IF t = 0 THEN [status |-> UNKNOWN, row |-> 0]
     ELSE
     LET table == tables[t]
         header_texts == header_texts_from_table(table)
         found == {i \in 1..Len(header_texts) :
                     header_texts[i] # <<>> /\ Contains(header_texts[i], date_label)}
         date_idx == IF found = {} THEN -1
                     ELSE (CHOOSE i \in found : \A j \in found : i <= j) - 1
         td_idx == date_idx - 1
     IN IF date_idx < 0 THEN [status |-> UNKNOWN, row |-> 0]
        ELSE IF td_idx < 0 THEN [status |-> UNKNOWN, row |-> 0]
        ELSE
        LET r == CampRow(table)
        IN IF r = 0 \/ fail = "row" THEN [status |-> UNKNOWN, row |-> 0]
           ELSE
           LET tds == Trs(table)[r].tds
           IN IF td_idx >= Len(tds) THEN [status |-> UNKNOWN, row |-> r]
              ELSE IF fail = "text" THEN [status |-> UNKNOWN, row |-> r]
              ELSE [status |-> Classify(ElemText(tds[td_idx + 1])), row |-> r]

\* detect_status_with_selenium: makedirs and setup_driver run before the try block,
\* drv.quit() in the finally clause; an exception of theirs leaves the function.
detect_status_with_selenium(tables, date_label, fail) ==
  IF fail \in {"makedirs", "driver"}
  THEN [raised |-> TRUE, status |-> None, row |-> 0, loads |-> 0, fail |-> fail]
  ELSE LET b == DetectBody(tables, date_label, fail)
       IN IF fail = "quit"
          THEN [raised |-> TRUE, status |-> None, row |-> b.row, loads |-> 1, fail |-> fail]
          ELSE [raised |-> FALSE, status |-> b.status, row |-> b.row, loads |-> 1,
                fail |-> fail]

(***************************************************************************)
(* Pages the detector is run on.                                           *)
(***************************************************************************)
Elem(t, i, c) == [text |-> t, innerText |-> i, textContent |-> c]
Plain(x) == Elem(x, x, x)

D1230 == <<"1", "2", "/", "3", "0">>
D1231 == <<"1", "2", "/", "3", "1">>
DateLabels == {D1231, <<"2", "/", "3">>}

Cottage == <<"C1", "C2">>
Categories == {CampLiteral, Cottage}

HeaderCorner == Plain(<<>>)
\* a date header whose rendered text is empty: only textContent carries it
HeaderHidden == Elem(<<>>, <<>>, <<"NL", " ">> \o D1231 \o <<"NL">>)

Headers ==
  { <<HeaderCorner, Plain(D1230), Plain(D1231 \o <<"NL", "w">>)>>,
    <<HeaderCorner, HeaderHidden>>,
    <<Plain(D1231)>>,
    <<HeaderCorner, Plain(D1230)>> }

CellMaru == Plain(<<"MARU">>)
CellBatsu == Plain(<<"BATSU">>)
CellDash == Plain(<<"-">>)
CellInner == Elem(<<" ">>, <<"NL", "ZAN", "3">>, <<"NL", "ZAN", "3", "NL">>)
PaddedCamp == <<"NL", " ">> \o CampLiteral \o <<" ", "A">>

Rows ==
  { [ths |-> <<CampLiteral>>, tds |-> <<CellBatsu, CellMaru>>],
    [ths |-> <<CampLiteral>>, tds |-> <<CellInner>>],
    [ths |-> <<CampLiteral>>, tds |-> <<CellDash>>],
    [ths |-> <<CampLiteral>>, tds |-> <<>>],
    [ths |-> <<PaddedCamp>>, tds |-> <<CellBatsu>>],
    [ths |-> <<Cottage>>, tds |-> <<CellMaru>>],
    [ths |-> <<Cottage>>, tds |-> <<CellDash, CellBatsu>>] }

SeqsUpTo(S, n) == UNION {[1..k -> S] : k \in 0..n}

Tables == {[header |-> h, rows |-> rs] : h \in Headers, rs \in SeqsUpTo(Rows, MaxRows)}

\* tables placed beside the calendar: one with no date in its header, one with many
DecoyLow == [header |-> <<Plain(<<"x">>)>>, rows |-> <<>>]
DecoyHigh ==
  [header |-> <<HeaderCorner, Plain(D1230), Plain(D1230), Plain(D1230)>>,
   rows |-> <<[ths |-> <<CampLiteral>>, tds |-> <<CellBatsu, CellBatsu, CellBatsu>>]>>]

Pages ==
  {<<>>} \cup {<<t>> : t \in Tables} \cup {<<DecoyLow, t>> : t \in Tables}
    \cup {<<t, DecoyHigh>> : t \in Tables}

\* every outcome detection can have on these pages
DetectOutcomes ==
  {[raised |-> o.raised, status |-> o.status, loads |-> o.loads, fail |-> o.fail] :
     o \in {detect_status_with_selenium(p, d, f) : p \in Pages, d \in DateLabels, f \in FailSteps}}

(***************************************************************************)
(* Cache, comparison.                                                      *)
(***************************************************************************)
read_lastMutDefaultFull(file) == IF file = NoFile THEN BATSU ELSE Strip(file)

\* read_last(): "" when the file does not exist
read_last(file) == IF file = NoFile THEN <<>> ELSE Strip(file)

\* norm()
norm(s0) ==
  LET s == Strip(IF Truthy(s0) THEN s0 ELSE <<>>)
  IN IF Lower(s) \in {<<"x">>, <<"u", "n", "k", "n", "o", "w", "n">>} THEN Lower(s)
     ELSE IF s = BATSU THEN <<"x">>
     ELSE IF s = UNKNOWN THEN <<"u", "n", "k", "n", "o", "w", "n">>
     ELSE s

is_notifiableMutNoPrev(p, c) == c \in {MARU, SANKAKU} /\ p # c

is_notifiableMutLevel(p, c) ==
  <<p, c>> \in {<<(<<"x">>), MARU>>, <<(<<"x">>), SANKAKU>>} \/ c = SANKAKU

\* is_notifiable()
is_notifiable(p, c) == <<p, c>> \in {<<(<<"x">>), MARU>>, <<(<<"x">>), SANKAKU>>}

\* raise_for_status(): 4xx and 5xx raise HTTPError
RaiseForStatus(code) == 400 <= code /\ code < 600

\* responses of the messaging endpoint; 0: requests.post itself raised (timeout, no connection)
HttpOutcomes == {0, 200, 400, 500}

\* requests.post(...); r.raise_for_status()
PostRaises(code) == code = 0 \/ RaiseForStatus(code)

(***************************************************************************)
(* main(): one run.  exitCode is -1 while the run is in progress, and      *)
(* httpStatus is -1 while no messaging call was made; an exception that    *)
(* leaves main() ends the interpreter with exit status 1.                  *)
(***************************************************************************)
\* raw environments of a run (None: the variable is unset): the token, the send mode,
\* and LINE_TO_USER_ID, LINE_TO_GROUP_ID, LINE_USER_IDS
TokenRaw == {None, <<" ">>, <<"t">>}
ModeRaw == {None, broadcast, multicast, <<"P">>}
RecipientsRaw ==
  { [user |-> None, group |-> None, csv |-> None],
    [user |-> <<"U">>, group |-> <<" ">>, csv |-> <<" ", ",", " ">>],
    [user |-> None, group |-> <<"G">>, csv |-> <<"a", ",", "b">>] }

Count(ev) == Cardinality({i \in 1..Len(trace) : trace[i] = ev})

NoRun == [obs |-> None, calls |-> 0, exit |-> -1, cacheBefore |-> NoFile]

MainInit ==
  /\ pc = "idle"
  /\ CHANNEL_TOKEN = None
  /\ SEND_MODE = push
  /\ TO_USER_ID = None
  /\ TO_GROUP_ID = None
  /\ USER_IDS_CSV = <<>>
  /\ cacheFile = NoFile
  /\ last = None
  /\ status = None
  /\ prev = None
  /\ curr = None
  /\ should_notify = FALSE
  /\ exitCode = -1
  /\ failAt = "none"
  /\ trace = <<>>
  /\ httpStatus = -1
  /\ prevRun = NoRun
  /\ cacheAtStart = NoFile
  /\ lastWriterObs = None
  /\ sinceDelivery = "none"
  /\ deliveryGap = "none"

\* the detector has not run
NotDetected == [raised |-> FALSE, status |-> None, row |-> 0, loads |-> 0, fail |-> "idle"]

DetectIdle ==
  /\ page = <<>>
  /\ TARGET_CATEGORY = CampLiteral
  /\ TARGET_DATE_LABEL = D1231
  /\ detected = NotDetected

CellIdle ==
  /\ cell = Plain(<<>>)
  /\ cellResult = NotRun

Init == MainInit /\ DetectIdle /\ CellIdle

\* the job runner starts the process: lines 30-45 load the settings
StartRun ==
  /\ pc \in {"idle", "done"}
  /\ \E tok \in TokenRaw, mode \in ModeRaw, to \in RecipientsRaw :
       /\ CHANNEL_TOKEN' = env(tok, None)
       /\ SEND_MODE' = env(mode, push)
       /\ TO_USER_ID' = env(to.user, None)
       /\ TO_GROUP_ID' = env(to.group, None)
       /\ USER_IDS_CSV' = env(to.csv, <<>>)
  /\ prevRun' = IF pc = "done"
                THEN [obs |-> status, calls |-> Count("post"), exit |-> exitCode,
                      cacheBefore |-> cacheAtStart]
                ELSE NoRun
  /\ cacheAtStart' = cacheFile
  /\ last' = None
  /\ status' = None
  /\ prev' = None
  /\ curr' = None
  /\ should_notify' = FALSE
  /\ exitCode' = -1
  /\ failAt' = "none"
  /\ trace' = <<>>
  /\ httpStatus' = -1
  /\ pc' = "main"
  /\ UNCHANGED <<cacheFile, lastWriterObs, sinceDelivery, deliveryGap>>
  /\ UNCHANGED <<detectVars, cellVars>>

\* lines 317-319
CheckToken ==
  /\ pc = "main"
  /\ IF ~Truthy(CHANNEL_TOKEN)
     THEN pc' = "done" /\ exitCode' = 2
     ELSE pc' = "read_last" /\ exitCode' = exitCode
  /\ UNCHANGED <<CHANNEL_TOKEN, SEND_MODE, TO_USER_ID, TO_GROUP_ID, USER_IDS_CSV, cacheFile,
                 last, status, prev, curr, should_notify, failAt, trace, httpStatus,
                 prevRun, cacheAtStart, lastWriterObs, sinceDelivery, deliveryGap>>
  /\ UNCHANGED <<detectVars, cellVars>>

\* line 321
ReadLast ==
  /\ pc = "read_last"
  /\ last' = read_last(cacheFile)
  /\ trace' = Append(trace, "read_last")
  /\ pc' = "detect"
  /\ UNCHANGED <<CHANNEL_TOKEN, SEND_MODE, TO_USER_ID, TO_GROUP_ID, USER_IDS_CSV, cacheFile,
                 status, prev, curr, should_notify, exitCode, failAt, httpStatus,
                 prevRun, cacheAtStart, lastWriterObs, sinceDelivery, deliveryGap>>
  /\ UNCHANGED <<detectVars, cellVars>>

\* line 322
Detect ==
  /\ pc = "detect"
  /\ \E o \in DetectOutcomes :
       /\ status' = o.status
       /\ failAt' = o.fail
       /\ trace' = trace \o <<"detect">> \o (IF o.loads = 1 THEN <<"get">> ELSE <<>>)
       /\ IF o.raised
          THEN pc' = "done" /\ exitCode' = 1
          ELSE pc' = "decide" /\ exitCode' = exitCode
       /\ sinceDelivery' = IF ~o.raised /\ o.status = BATSU /\ sinceDelivery # "none"
                           THEN "yes" ELSE sinceDelivery
  /\ UNCHANGED <<CHANNEL_TOKEN, SEND_MODE, TO_USER_ID, TO_GROUP_ID, USER_IDS_CSV, cacheFile,
                 last, prev, curr, should_notify, httpStatus,
                 prevRun, cacheAtStart, lastWriterObs, deliveryGap>>
  /\ UNCHANGED <<detectVars, cellVars>>

DecideMutWriteFirst ==
  /\ pc = "decide"
  /\ prev' = norm(last)
  /\ curr' = norm(status)
  /\ should_notify' = is_notifiable(norm(last), norm(status))
  /\ cacheFile' = status
  /\ trace' = Append(trace, "write_last")
  /\ pc' = IF is_notifiable(norm(last), norm(status)) THEN "notify" ELSE "write_last"
  /\ UNCHANGED <<CHANNEL_TOKEN, SEND_MODE, TO_USER_ID, TO_GROUP_ID, USER_IDS_CSV,
                 last, status, exitCode, failAt, httpStatus,
                 prevRun, cacheAtStart, lastWriterObs, sinceDelivery, deliveryGap>>
  /\ UNCHANGED <<detectVars, cellVars>>

\* lines 325-332
Decide ==
  /\ pc = "decide"
  /\ prev' = norm(last)
  /\ curr' = norm(status)
  /\ should_notify' = is_notifiable(norm(last), norm(status))
  /\ pc' = IF is_notifiable(norm(last), norm(status)) THEN "notify" ELSE "write_last"
  /\ UNCHANGED <<CHANNEL_TOKEN, SEND_MODE, TO_USER_ID, TO_GROUP_ID, USER_IDS_CSV, cacheFile,
                 last, status, exitCode, failAt, trace, httpStatus,
                 prevRun, cacheAtStart, lastWriterObs, sinceDelivery, deliveryGap>>
  /\ UNCHANGED <<detectVars, cellVars>>

ExitNoRecipientMutZero ==
  /\ pc' = "done"
  /\ exitCode' = 0
  /\ UNCHANGED <<trace, httpStatus, sinceDelivery, deliveryGap>>

\* sys.exit(3) of lines 353 and 358
ExitNoRecipient ==
  /\ pc' = "done"
  /\ exitCode' = 3
  /\ UNCHANGED <<trace, httpStatus, sinceDelivery, deliveryGap>>

PostOnceMutRetry ==
  \E code \in HttpOutcomes, again \in HttpOutcomes :
    /\ trace' = IF PostRaises(code) THEN trace \o <<"post", "post">>
                ELSE Append(trace, "post")
    /\ httpStatus' = IF PostRaises(code) THEN again ELSE code
    /\ IF PostRaises(IF PostRaises(code) THEN again ELSE code)
       THEN /\ pc' = "done"
            /\ exitCode' = 1
            /\ UNCHANGED <<sinceDelivery, deliveryGap>>
       ELSE /\ pc' = "write_last"
            /\ exitCode' = exitCode
            /\ deliveryGap' = sinceDelivery
            /\ sinceDelivery' = "no"

\* requests.post and raise_for_status of push_flex, broadcast_flex, multicast_flex
PostOnce ==
  \E code \in HttpOutcomes :
    /\ trace' = Append(trace, "post")
    /\ httpStatus' = code
    /\ IF PostRaises(code)
       THEN /\ pc' = "done"
            /\ exitCode' = 1
            /\ UNCHANGED <<sinceDelivery, deliveryGap>>
       ELSE /\ pc' = "write_last"
            /\ exitCode' = exitCode
            /\ deliveryGap' = sinceDelivery
            /\ sinceDelivery' = "no"

\* lines 348-349
Broadcast ==
  /\ pc = "notify"
  /\ SEND_MODE = broadcast
  /\ PostOnce
  /\ UNCHANGED <<CHANNEL_TOKEN, SEND_MODE, TO_USER_ID, TO_GROUP_ID, USER_IDS_CSV, cacheFile,
                 last, status, prev, curr, should_notify, failAt,
                 prevRun, cacheAtStart, lastWriterObs>>
  /\ UNCHANGED <<detectVars, cellVars>>

\* ids of line 351
UserIds(csv) ==
  LET parts == Split(csv)
  IN {i \in 1..Len(parts) : Strip(parts[i]) # <<>>}

\* lines 350-354
Multicast ==
  /\ pc = "notify"
  /\ SEND_MODE # broadcast
  /\ SEND_MODE = multicast
  /\ IF UserIds(USER_IDS_CSV) = {} THEN ExitNoRecipient ELSE PostOnce
  /\ UNCHANGED <<CHANNEL_TOKEN, SEND_MODE, TO_USER_ID, TO_GROUP_ID, USER_IDS_CSV, cacheFile,
                 last, status, prev, curr, should_notify, failAt,
                 prevRun, cacheAtStart, lastWriterObs>>
  /\ UNCHANGED <<detectVars, cellVars>>

\* lines 355-359
Push ==
  /\ pc = "notify"
  /\ SEND_MODE # broadcast
  /\ SEND_MODE # multicast
  /\ IF ~Truthy(Or(TO_GROUP_ID, TO_USER_ID)) THEN ExitNoRecipient ELSE PostOnce
  /\ UNCHANGED <<CHANNEL_TOKEN, SEND_MODE, TO_USER_ID, TO_GROUP_ID, USER_IDS_CSV, cacheFile,
                 last, status, prev, curr, should_notify, failAt,
                 prevRun, cacheAtStart, lastWriterObs>>
  /\ UNCHANGED <<detectVars, cellVars>>

write_lastMutNorm(s) == norm(s)

\* write_last(): the file holds s
write_last(s) == s

\* lines 362-363
WriteLast ==
  /\ pc = "write_last"
  /\ cacheFile' = write_last(status)
  /\ lastWriterObs' = status
  /\ trace' = Append(trace, "write_last")
  /\ exitCode' = 0
  /\ pc' = "done"
  /\ UNCHANGED <<CHANNEL_TOKEN, SEND_MODE, TO_USER_ID, TO_GROUP_ID, USER_IDS_CSV,
                 last, status, prev, curr, should_notify, failAt, httpStatus,
                 prevRun, cacheAtStart, sinceDelivery, deliveryGap>>
  /\ UNCHANGED <<detectVars, cellVars>>

Next ==
  \/ StartRun
  \/ CheckToken
  \/ ReadLast
  \/ Detect
  \/ Decide
  \/ Broadcast
  \/ Multicast
  \/ Push
  \/ WriteLast

Spec == Init /\ [][Next]_vars

(***************************************************************************)
(* The detector alone, on every page of Pages.                             *)
(***************************************************************************)
InitDetect ==
  /\ MainInit
  /\ CellIdle
  /\ page \in Pages
  /\ TARGET_CATEGORY \in Categories
  /\ TARGET_DATE_LABEL \in DateLabels
  /\ detected = NotDetected

RunDetector ==
  /\ detected = NotDetected
  /\ \E f \in FailSteps : detected' = detect_status_with_selenium(page, TARGET_DATE_LABEL, f)
  /\ UNCHANGED <<page, TARGET_CATEGORY, TARGET_DATE_LABEL>>
  /\ UNCHANGED <<mainVars, cellVars>>

NextDetect == RunDetector

SpecDetect == InitDetect /\ [][NextDetect]_vars

(***************************************************************************)
(* The reading and classification of one cell (lines 253-276), on every    *)
(* cell whose texts are drawn from CellTexts.                              *)
(***************************************************************************)
Alphabet == {"MARU", "MARU0", "SANKAKU", "ZAN", "BATSU", " ", "NL", "-"}
CellTexts == SeqsUpTo(Alphabet, MaxLen)
ShortTexts == {<<>>, <<" ">>, <<"NL">>, <<"MARU">>, <<"BATSU">>}

\* one of the three texts is any text of CellTexts, the other two are short
CellInput(t, a, b, k) ==
  IF k = 1 THEN Elem(t, a, b) ELSE IF k = 2 THEN Elem(a, t, b) ELSE Elem(a, b, t)

InitCell ==
  /\ MainInit
  /\ DetectIdle
  /\ \E t \in CellTexts, a \in ShortTexts, b \in ShortTexts, k \in 1..3 :
       cell = CellInput(t, a, b, k)
  /\ cellResult = NotRun

ReadCell ==
  /\ cellResult = NotRun
  /\ cellResult' = Classify(ElemText(cell))
  /\ UNCHANGED cell
  /\ UNCHANGED <<mainVars, detectVars>>

NextCell == ReadCell

SpecCell == InitCell /\ [][NextCell]_vars

(***************************************************************************)
(* Properties.                                                             *)
(***************************************************************************)
States == {MARU, SANKAKU, BATSU, UNKNOWN}

\* this run made its notification decision
Decided == prev # None

\* this run called the messaging endpoint
Posted == Count("post") >= 1

Wrote == Count("write_last") >= 1

\* the transition the program notifies: the cache held Full, this run detected
\* Available or Limited
FullToOpen == last = BATSU /\ status \in {MARU, SANKAKU}

\* the recipient the configured send mode needs is set
RecipientConfigured ==
  \/ SEND_MODE = broadcast
  \/ /\ SEND_MODE = multicast
     /\ \E i \in 1..Len(Split(USER_IDS_CSV)) :
          \E j \in 1..Len(Split(USER_IDS_CSV)[i]) : Split(USER_IDS_CSV)[i][j] \notin Whitespace
  \/ /\ SEND_MODE \notin {broadcast, multicast}
     /\ (Truthy(TO_GROUP_ID) \/ Truthy(TO_USER_ID))

\* C1 as stated: a run that detected a state calls the messaging endpoint if and only
\* if the cached state is Full and the detected state is Available or Limited.
C1_Original == (pc = "done" /\ Decided) => (Posted <=> FullToOpen)

\* C1 amended: the run decides to notify if and only if the cached state is Full and
\* the detected state is Available or Limited; it calls the messaging endpoint if and
\* only if, in addition, the recipient of the send mode is configured; for every other
\* (previous, current) pair no messaging call is made.
C1_StrictTransition ==
  /\ Decided => (should_notify <=> FullToOpen)
  /\ (pc = "done" /\ Decided) => (Posted <=> (FullToOpen /\ RecipientConfigured))
  /\ ~FullToOpen => ~Posted

C1_Witness ==
  /\ pc = "done"
  /\ last = BATSU
  /\ status = SANKAKU
  /\ Posted
  /\ prevRun.obs = BATSU

\* C2 as stated: after every run that performed detection and computed a state, however
\* it ended, the cache file holds that state.
C2_Original == (pc = "done" /\ status \in States) => cacheFile = status

\* C2 amended: after a run that exits with code 0 the cache file holds exactly the
\* state string that run computed; a run that ends any other way leaves the cache file
\* as it was when the run started.
C2_CacheHoldsLast ==
  pc = "done" =>
    /\ exitCode = 0 => (status \in States /\ cacheFile = status)
    /\ exitCode # 0 => cacheFile = cacheAtStart

C2_Witness ==
  /\ pc = "done"
  /\ exitCode = 0
  /\ cacheAtStart = BATSU
  /\ status = MARU
  /\ cacheFile = MARU

\* C3 as stated: two consecutive runs that both observe Limited send one notification
\* (diff-only mode) or two (mode disabled) between them.
C3_Original ==
  (pc = "done" /\ status = SANKAKU /\ prevRun.obs = SANKAKU)
    => (prevRun.calls + Count("post")) \in {1, 2}

\* C3 amended: the program has no diff-only switch; over two consecutive runs that both
\* observe Limited, the first of which exits with code 0, the second sends nothing and
\* the first sends exactly one notification if the cache held Full before it and none
\* otherwise.
C3_TwoLimited ==
  (pc = "done" /\ status = SANKAKU /\ prevRun.obs = SANKAKU /\ prevRun.exit = 0)
    => /\ ~Posted
       /\ prevRun.calls = (IF prevRun.cacheBefore = BATSU THEN 1 ELSE 0)

C3_Witness ==
  /\ pc = "done"
  /\ exitCode = 0
  /\ status = SANKAKU
  /\ prevRun.obs = SANKAKU
  /\ prevRun.exit = 0
  /\ prevRun.calls = 1

\* C4 as stated: an exception at any of the listed steps of detection is caught, the
\* detector returns UNKNOWN and main() goes on to the cache write.
C4_Claim ==
  failAt \in {"makedirs", "driver", "get", "table", "row", "text"}
    => /\ status = UNKNOWN
       /\ pc = "done" => (Wrote /\ exitCode = 0)

\* C5 as stated: a run with the token missing, or with the recipient of the configured
\* send mode missing, exits with a non-zero code whatever state it detects.
C5_Original ==
  (pc = "done" /\ (~Truthy(CHANNEL_TOKEN) \/ ~RecipientConfigured)) => exitCode # 0

\* C5 amended: a run exits 0 exactly when it completes with the cache written; it exits
\* 2 whenever the token is missing, whatever the state; it exits 3 when the recipient of
\* the send mode is missing and the run has a notification to send; with the recipient
\* missing and nothing to send it exits 0.
C5_ExitCodes ==
  pc = "done" =>
    /\ exitCode = 0 <=> Wrote
    /\ ~Truthy(CHANNEL_TOKEN) => exitCode = 2
    /\ (Truthy(CHANNEL_TOKEN) /\ Decided /\ ~RecipientConfigured) =>
         exitCode = (IF FullToOpen THEN 3 ELSE 0)

C5_Witness ==
  /\ pc = "done"
  /\ Truthy(CHANNEL_TOKEN)
  /\ SEND_MODE = multicast
  /\ ~RecipientConfigured
  /\ exitCode = 3

\* C6: when the messaging call ends in an HTTP error status, the run has ended without
\* exit code 0 and without the cache write, and the endpoint was called exactly once.
C6_DeliveryErrorFatal ==
  /\ Count("post") <= 1
  /\ httpStatus >= 400 =>
       (pc = "done" /\ exitCode \notin {-1, 0} /\ Count("post") = 1 /\ ~Wrote)

C6_Witness ==
  /\ httpStatus = 500
  /\ pc = "done"
  /\ SEND_MODE = multicast
  /\ trace = <<"read_last", "detect", "get", "post">>

\* C9 as stated, for the runs whose detection returned a state: a run that passed the
\* credential check has performed one cache read, one detection with its page load, at
\* most one messaging call and exactly one cache write, in this order.
C9_Original ==
  (pc = "done" /\ exitCode # 2 /\ status \in States)
    => trace \in { <<"read_last", "detect", "get", "write_last">>,
                   <<"read_last", "detect", "get", "post", "write_last">> }

IsPrefix(a, b) == Len(a) <= Len(b) /\ SubSeq(b, 1, Len(a)) = a

\* C9 amended: a run performs, in this order, one cache read, one detection with at
\* most one page load, at most one messaging call and at most one cache write; the
\* write is the last operation, made exactly when the run exits 0, and a run that ends
\* with a non-zero code has written nothing.
C9_RunOrder ==
  /\ \/ IsPrefix(trace, <<"read_last", "detect", "get", "post", "write_last">>)
     \/ IsPrefix(trace, <<"read_last", "detect", "get", "write_last">>)
  /\ (pc = "done" /\ exitCode = 0) =>
       (Count("read_last") = 1 /\ Count("detect") = 1 /\ Count("get") = 1
          /\ Count("write_last") = 1 /\ trace[Len(trace)] = "write_last")
  /\ (pc = "done" /\ exitCode # 0) => ~Wrote
  /\ (pc = "done" /\ exitCode # 2) => (Count("read_last") = 1 /\ Count("detect") = 1)

C9_Witness ==
  /\ pc = "done"
  /\ trace = <<"read_last", "detect", "get", "post", "write_last">>

\* C10: a run calls the messaging endpoint only if the most recent earlier run that
\* wrote the cache observed Full: never on a first run with no cache file, never right
\* after a run that observed Unknown; and between two successful deliveries some run
\* observed Full.
C10_EdgeOverRuns ==
  /\ (Posted /\ ~Wrote) => lastWriterObs = BATSU
  /\ Posted => (cacheAtStart # NoFile /\ prevRun.obs # UNKNOWN)
  /\ deliveryGap # "no"

C10_Witness ==
  /\ Posted
  /\ ~Wrote
  /\ httpStatus = 200
  /\ deliveryGap = "yes"
  /\ prevRun.obs = BATSU

(***************************************************************************)
(* Detector properties (SpecDetect, SpecCell).                             *)
(***************************************************************************)
\* the label is in the string value of the cell, whitespace normalised
LabelMatches(th, label) == Contains(NormalizeSpace(th), label)

LeadingCell(row) == IF Len(row.ths) >= 1 THEN row.ths[1] ELSE <<>>

\* C7 as stated: in a detection where no browser call fails, if the configured category
\* label is in the leading header cell of no row of the chosen table the detector
\* returns UNKNOWN, and a row that is read has the configured label in its leading cell.
C7_Claim ==
  (detected.fail = "none" /\ choose_calendar_table(page) # 0) =>
    LET trs == Trs(page[choose_calendar_table(page)])
    IN /\ (\A r \in 1..Len(trs) : ~LabelMatches(LeadingCell(trs[r]), TARGET_CATEGORY))
            => (detected.status = UNKNOWN /\ ~detected.raised)
       /\ detected.row # 0 => LabelMatches(LeadingCell(trs[detected.row]), TARGET_CATEGORY)

Chars(s) == {s[i] : i \in 1..Len(s)}

Blank(s) == Chars(s) \subseteq Whitespace

\* the first of rendered text, innerText, textContent that is not blank
FirstText(el) ==
  IF ~Blank(el.text) THEN el.text
  ELSE IF ~Blank(el.innerText) THEN el.innerText
  ELSE el.textContent

\* C8: the classification of a cell is decided by the glyphs of the first non-blank
\* text among rendered text, innerText and textContent, whichever of them it is: a
\* circle gives Available; else a triangle or 'remaining' gives Limited; else a cross
\* gives Full; else Unknown.
C8_SymbolPrecedence ==
  cellResult # NotRun =>
    LET g == Chars(FirstText(cell))
    IN /\ (g \cap {"MARU", "MARU0"} # {}) => cellResult = MARU
       /\ (g \cap {"MARU", "MARU0"} = {} /\ g \cap {"SANKAKU", "ZAN"} # {})
            => cellResult = SANKAKU
       /\ (g \cap {"MARU", "MARU0", "SANKAKU", "ZAN"} = {} /\ "BATSU" \in g)
            => cellResult = BATSU
       /\ (g \cap {"MARU", "MARU0", "SANKAKU", "ZAN", "BATSU"} = {}) => cellResult = UNKNOWN

C8_Witness ==
  /\ cellResult = MARU
  /\ Blank(cell.text)
  /\ cell.text # <<>>
  /\ Chars(cell.innerText) = {"BATSU", "ZAN", "MARU0"}

====
